---- MODULE Spec2Model ----
(***************************************************************************)
(* Reservation wizard of src/main.py: the per-user draft kept in           *)
(* available_time_slots, the next-step handlers registered per chat, the   *)
(* reservations table, and the handlers that move a draft through the      *)
(* wizard and store it.                                                    *)
(*                                                                         *)
(* Strings are sequences of one-character strings, so that strip(), int(), *)
(* str(), replace(), strptime() and strftime() are computed and not        *)
(* assumed.  A chat is the private chat of its user (chat id = user id).   *)
(* A command typed while a next-step handler is pending reaches that       *)
(* handler as ordinary text; a start command that reaches send_welcome is  *)
(* the action Start.                                                       *)
(***************************************************************************)
EXTENDS Integers, Sequences, FiniteSets, TLC

\* ------------------------------------------------------------------ bounds
MaxRecords  == 1      \* rows the reservations table may hold in the model
MaxHandlers == 1      \* next-step handlers pending for one chat in the model

\* --------------------------------------------------------------- constants
NumThreads == 2       \* worker threads of TeleBot(...) (threaded, default pool)
NumDays    == 7       \* range(7) of generate_date_selection_buttons
MaxPick    == 5       \* range(1, 6) of generate_num_people_buttons
FirstHour  == 9       \* range(9, 23) of generate_half_hour_slots
LastHour   == 22

\* ----------------------------------------------------------------- strings
DigitChars == <<"0", "1", "2", "3", "4", "5", "6", "7", "8", "9">>

IsDigit(c) == \E i \in 1..10 : DigitChars[i] = c

DigitVal(c) == (CHOOSE i \in 1..10 : DigitChars[i] = c) - 1

Whitespace == {" ", "\t", "\n"}

RECURSIVE lstrip(_)
lstrip(s) == IF s # <<>> /\ Head(s) \in Whitespace THEN lstrip(Tail(s)) ELSE s

RECURSIVE rstrip(_)
rstrip(s) ==
    IF s # <<>> /\ s[Len(s)] \in Whitespace
    THEN rstrip(SubSeq(s, 1, Len(s) - 1))
    ELSE s

\* str.strip()
strip(s) == rstrip(lstrip(s))

\* str.startswith(prefix)
startswith(s, prefix) ==
    Len(s) >= Len(prefix) /\ SubSeq(s, 1, Len(prefix)) = prefix

\* str.replace(old, "") for a non-empty old
RECURSIVE replace(_, _)
replace(s, old) ==
    IF s = <<>> THEN <<>>
    ELSE IF startswith(s, old)
         THEN replace(SubSeq(s, Len(old) + 1, Len(s)), old)
         ELSE <<Head(s)>> \o replace(Tail(s), old)

\* "-" in data
contains(s, c) == \E i \in 1..Len(s) : s[i] = c

\* the digits of int(): digits, single underscores allowed between digits
IsDigits(b) ==
    /\ b # <<>>
    /\ IsDigit(b[1]) /\ IsDigit(b[Len(b)])
    /\ \A i \in 1..Len(b) : IsDigit(b[i]) \/ b[i] = "_"
    /\ \A i \in 1..(Len(b) - 1) : ~(b[i] = "_" /\ b[i + 1] = "_")

RECURSIVE DigitsVal(_, _)
DigitsVal(b, acc) ==
    IF b = <<>> THEN acc
    ELSE IF Head(b) = "_" THEN DigitsVal(Tail(b), acc)
         ELSE DigitsVal(Tail(b), 10 * acc + DigitVal(Head(b)))

Unsigned(s) == IF s # <<>> /\ s[1] \in {"+", "-"} THEN Tail(s) ELSE s

\* int(s) raises ValueError unless IsInt(strip(s)); int() strips by itself
IsInt(s) == IsDigits(Unsigned(strip(s)))

int(s) ==
    LET t == strip(s)
        v == DigitsVal(Unsigned(t), 0)
    IN  IF t[1] = "-" THEN 0 - v ELSE v

RECURSIVE NatStr(_)
NatStr(n) ==
    IF n < 10 THEN <<DigitChars[n + 1]>>
    ELSE NatStr(n \div 10) \o <<DigitChars[(n % 10) + 1]>>

\* str(i)
str(i) == IF i < 0 THEN <<"-">> \o NatStr(0 - i) ELSE NatStr(i)

\* f"{n:02d}" and strftime's %m %d %H %M
Pad2(n) == IF n >= 0 /\ n < 10 THEN <<"0">> \o NatStr(n) ELSE str(n)

\* the text before and after the first occurrence of sep
RECURSIVE Before(_, _)
Before(s, sep) ==
    IF s = <<>> \/ Head(s) = sep THEN <<>>
    ELSE <<Head(s)>> \o Before(Tail(s), sep)

After(s, sep) ==
    LET n == Len(Before(s, sep))
    IN  IF n >= Len(s) THEN <<>> ELSE SubSeq(s, n + 2, Len(s))

AllDigits(s) == s # <<>> /\ \A i \in 1..Len(s) : IsDigit(s[i])

IsLeap(y) == (y % 4 = 0 /\ y % 100 # 0) \/ y % 400 = 0

DaysIn(y, m) ==
    IF m = 2 THEN (IF IsLeap(y) THEN 29 ELSE 28)
    ELSE IF m \in {4, 6, 9, 11} THEN 30 ELSE 31

\* the five fields of "%Y-%m-%d %H:%M" as texts
DateTimeFields(s) ==
    LET y   == Before(s, "-")
        r1  == After(s, "-")
        mo  == Before(r1, "-")
        r2  == After(r1, "-")
        d   == Before(r2, " ")
        r3  == After(r2, " ")
        h   == Before(r3, ":")
        mi  == After(r3, ":")
    IN  <<y, mo, d, h, mi>>

\* dt.strptime(s, "%Y-%m-%d %H:%M") raises ValueError unless this holds
IsDateTime(s) ==
    LET f == DateTimeFields(s)
    IN  /\ \A i \in 1..5 : AllDigits(f[i])
        /\ Len(f[1]) = 4
        /\ \A i \in 2..5 : Len(f[i]) \in {1, 2}
        /\ DigitsVal(f[1], 0) >= 1
        /\ DigitsVal(f[2], 0) \in 1..12
        /\ DigitsVal(f[3], 0) \in 1..DaysIn(DigitsVal(f[1], 0), DigitsVal(f[2], 0))
        /\ DigitsVal(f[4], 0) \in 0..23
        /\ DigitsVal(f[5], 0) \in 0..59

strptime(s) ==
    LET f == DateTimeFields(s)
    IN  [year |-> DigitsVal(f[1], 0), month |-> DigitsVal(f[2], 0),
         day |-> DigitsVal(f[3], 0), hour |-> DigitsVal(f[4], 0),
         minute |-> DigitsVal(f[5], 0)]

\* reservation_datetime.date().strftime('%Y-%m-%d')
strftime_date(t) ==
    str(t.year) \o <<"-">> \o Pad2(t.month) \o <<"-">> \o Pad2(t.day)

\* reservation_datetime.strftime('%H:%M')
strftime_time(t) == Pad2(t.hour) \o <<":">> \o Pad2(t.minute)

\* ------------------------------------------------------------ model inputs
Users == {1, 2}                     \* user ids (message.from_user.id)
Solo  == {1}                        \* the users acting under Spec
Faults == 0..2                      \* which external call of a step fails, 0: none

chat_id(u) == u                     \* private chat: chat.id = from_user.id

Today == [year |-> 2025, month |-> 5, day |-> 31, hour |-> 0, minute |-> 0]

ShownDays == {1}                    \* offsets of the date buttons pressed
ShownSlots == {<<19, 30>>}          \* <<hour, minute>> of the time buttons pressed
ShownPicks == {2}                   \* quick-pick buttons pressed

None == <<"None">>                  \* Python's None (a text-less message, SQL NULL)

\* the texts the modelled users send
NameText == <<"J", " ", "D", " ">>                   \* "J D "
NumText  == <<" ", "2">>                             \* " 2"

Texts == {NameText, NumText}

\* the texts the handlers are examined on
AnyText == Texts \cup { None, <<>>, <<" ">>, <<"a", "b", "c">>, <<"0">>,
                        <<"-", "1">>, <<"+", "3">>, <<"1", "_", "0">>,
                        <<"3", " ", "4">>, <<"/", "s", "t", "a", "r", "t">> }

\* ------------------------------------------------- callback data (buttons)
reserve == <<"r", "e", "s", "e", "r", "v", "e">>
time_   == <<"t", "i", "m", "e", "_">>
num_    == <<"n", "u", "m", "_">>
other   == <<"o", "t", "h", "e", "r">>

\* now + timedelta(days=i), for the days the month can roll over
AddDays(t, i) ==
    IF t.day + i <= DaysIn(t.year, t.month)
    THEN [t EXCEPT !.day = t.day + i]
    ELSE IF t.month < 12
         THEN [t EXCEPT !.month = t.month + 1,
                        !.day = t.day + i - DaysIn(t.year, t.month)]
         ELSE [t EXCEPT !.year = t.year + 1, !.month = 1,
                        !.day = t.day + i - DaysIn(t.year, t.month)]

\* callback_data of the date buttons
generate_date_selection_buttons ==
    { strftime_date(AddDays(Today, i)) : i \in 0..(NumDays - 1) }

\* callback_data of the time buttons
generate_half_hour_slots ==
    { time_ \o Pad2(h) \o <<":">> \o Pad2(m) :
        h \in FirstHour..LastHour, m \in {0, 15, 30, 45} }

\* callback_data of the party-size buttons
generate_num_people_buttons ==
    { num_ \o str(i) : i \in 1..MaxPick } \cup { num_ \o other }

\* callback_data of the main menu
generate_main_buttons == { reserve }

\* the buttons the modelled users press
CallbackData ==
    generate_main_buttons
    \cup { d \in generate_date_selection_buttons :
             \E i \in ShownDays : d = strftime_date(AddDays(Today, i)) }
    \cup { t \in generate_half_hour_slots :
             \E hm \in ShownSlots : t = time_ \o Pad2(hm[1]) \o <<":">> \o Pad2(hm[2]) }
    \cup { n \in generate_num_people_buttons :
             n = num_ \o other \/ \E i \in ShownPicks : n = num_ \o str(i) }

\* ------------------------------------------------------------------- state
VARIABLES
    available_time_slots,   \* dict user id -> draft (a dict of the fields set)
    next_step_handlers,     \* per chat: handlers registered for the next message
    reservations,           \* rows of the reservations table, in insert order
    threads,                \* process_notes calls asleep in a time.sleep(2)
    events,                 \* what the last step did: calls, sends, exceptions
    stored                  \* users whose present draft has already been inserted

vars == <<available_time_slots, next_step_handlers, reservations, threads,
          events, stored>>

\* the administrator's chat, 7994205774 in the source; a stand-in within
\* TLC's integer range that is no modelled user's chat
ADMIN_ID == 799420577

EmptyDict == [k \in {} |-> <<>>]

\* d[k] = v
Put(d, k, v) == [x \in (DOMAIN d) \cup {k} |-> IF x = k THEN v ELSE d[x]]

\* del d[k]
Del(d, k) == [x \in (DOMAIN d) \ {k} |-> d[x]]

\* the state as one value, for the handlers below
Cur ==
    [ats |-> available_time_slots, nsh |-> next_step_handlers,
     db |-> reservations, thr |-> threads, ev |-> <<>>, sto |-> stored]

\* the handler h runs for user u on the callback data or text x
Called(st, h, u, x) == [st EXCEPT !.ev = Append(@, <<"call", h, u, x>>)]

\* bot.send_message(chat, text)
send_message(st, chat, msg) == [st EXCEPT !.ev = Append(@, <<"send", chat, msg>>)]

\* an exception leaves the handler running for user u
Raise(st, u, exc) == [st EXCEPT !.ev = Append(@, <<"raise", exc, u>>)]

\* bot.register_next_step_handler(message, h)
register_next_step_handler(st, chat, h) == [st EXCEPT !.nsh[chat] = Append(@, h)]

\* bot.clear_step_handler_by_chat_id(chat)
clear_step_handler_by_chat_id(st, chat) == [st EXCEPT !.nsh[chat] = <<>>]

\* available_time_slots[u][k] = v, for u in available_time_slots
SetField(st, u, k, v) == [st EXCEPT !.ats = Put(@, u, Put(@[u], k, v))]

\* available_time_slots[u] = {}
NewSession(st, u) == [st EXCEPT !.ats = Put(@, u, EmptyDict), !.sto = @ \ {u}]

\* del available_time_slots[u], for u in available_time_slots
DelSession(st, u) ==
    [st EXCEPT !.ats = Del(@, u), !.sto = @ \ {u}, !.ev = Append(@, <<"del", u>>)]

\* ---------------------------------------------------------------- handlers
\* send_welcome without its del
send_welcome_keeps_draft(st, u) ==
    LET s0 == Called(st, "send_welcome", u, <<>>)
        s2 == clear_step_handler_by_chat_id(s0, chat_id(u))
    IN  send_message(s2, chat_id(u), "main_menu")

send_welcome(st, u) ==
    LET s0 == Called(st, "send_welcome", u, <<>>)
        s1 == IF u \in DOMAIN s0.ats THEN DelSession(s0, u) ELSE s0
        s2 == clear_step_handler_by_chat_id(s1, chat_id(u))
    IN  send_message(s2, chat_id(u), "main_menu")

callback_handler(st, u, data) ==
    LET s0 == Called(st, "callback_handler", u, data)
        c  == chat_id(u)
        has == u \in DOMAIN s0.ats
    IN  IF data = reserve THEN
            send_message(IF ~has THEN NewSession(s0, u) ELSE s0, c, "select_date")
        ELSE IF contains(data, "-") /\ Len(data) = 10 THEN
            IF ~has THEN Raise(s0, u, "KeyError")
            ELSE send_message(SetField(s0, u, "date", data), c, "select_time")
        ELSE IF startswith(data, time_) THEN
            IF ~has THEN Raise(s0, u, "KeyError")
            ELSE LET selected_time == replace(data, time_)
                     s1 == SetField(s0, u, "time", selected_time)
                     s2 == send_message(s1, c, "enter_name")
                     s3 == SetField(s2, u, "step", "full_name")
                 IN  register_next_step_handler(s3, c, "process_full_name")
        ELSE IF startswith(data, num_) THEN
            LET choice == replace(data, num_)
            IN  IF choice = other THEN
                    IF ~has THEN Raise(s0, u, "KeyError")
                    ELSE LET s1 == SetField(s0, u, "step", "num_people")
                             s2 == send_message(s1, c, "enter_number")
                         IN  register_next_step_handler(s2, c, "process_num_people")
                ELSE IF ~IsInt(choice) THEN Raise(s0, u, "ValueError")
                ELSE IF ~has THEN Raise(s0, u, "KeyError")
                ELSE LET s1 == SetField(s0, u, "num_people", int(choice))
                         s2 == SetField(s1, u, "step", "restaurant_link")
                         s3 == send_message(s2, c, "paste_link")
                     IN  register_next_step_handler(s3, c, "process_restaurant_link")
        ELSE s0

\* process_full_name writing the name into every draft there is
process_full_name_all_drafts(st, u, text) ==
    LET s0 == Called(st, "process_full_name", u, text)
        c  == chat_id(u)
    IN  IF u \notin DOMAIN s0.ats THEN send_message(s0, c, "restart")
        ELSE IF text = None THEN Raise(s0, u, "AttributeError")
        ELSE LET s1 == [s0 EXCEPT !.ats =
                          [v \in DOMAIN @ |-> Put(@[v], "full_name", strip(text))]]
                 s2 == SetField(s1, u, "step", "num_people")
             IN  send_message(s2, c, "how_many")

process_full_name(st, u, text) ==
    LET s0 == Called(st, "process_full_name", u, text)
        c  == chat_id(u)
    IN  IF u \notin DOMAIN s0.ats THEN send_message(s0, c, "restart")
        ELSE IF text = None THEN Raise(s0, u, "AttributeError")
        ELSE LET s1 == SetField(s0, u, "full_name", strip(text))
                 s2 == SetField(s1, u, "step", "num_people")
             IN  send_message(s2, c, "how_many")

\* process_num_people advancing the step before it parses the text
process_num_people_step_first(st, u, text) ==
    LET s0 == Called(st, "process_num_people", u, text)
        c  == chat_id(u)
    IN  IF u \notin DOMAIN s0.ats THEN send_message(s0, c, "restart")
        ELSE IF text = None THEN Raise(s0, u, "AttributeError")
        ELSE IF ~IsInt(strip(text)) THEN
            register_next_step_handler(
                send_message(SetField(s0, u, "step", "restaurant_link"),
                             c, "valid_number"),
                c, "process_num_people")
        ELSE LET s1 == SetField(s0, u, "num_people", int(strip(text)))
                 s2 == SetField(s1, u, "step", "restaurant_link")
                 s3 == send_message(s2, c, "paste_link")
             IN  register_next_step_handler(s3, c, "process_restaurant_link")

\* process_num_people handing over to process_notes, the link step left out
process_num_people_skips_link(st, u, text) ==
    LET s0 == Called(st, "process_num_people", u, text)
        c  == chat_id(u)
    IN  IF u \notin DOMAIN s0.ats THEN send_message(s0, c, "restart")
        ELSE IF text = None THEN Raise(s0, u, "AttributeError")
        ELSE IF ~IsInt(strip(text)) THEN
            register_next_step_handler(send_message(s0, c, "valid_number"),
                                       c, "process_num_people")
        ELSE LET s1 == SetField(s0, u, "num_people", int(strip(text)))
                 s2 == SetField(s1, u, "step", "notes")
                 s3 == send_message(s2, c, "any_notes")
             IN  register_next_step_handler(s3, c, "process_notes")

\* process_num_people discarding the draft when it rejects the text
process_num_people_drops_draft(st, u, text) ==
    LET s0 == Called(st, "process_num_people", u, text)
        c  == chat_id(u)
    IN  IF u \notin DOMAIN s0.ats THEN send_message(s0, c, "restart")
        ELSE IF text = None THEN Raise(s0, u, "AttributeError")
        ELSE IF ~IsInt(strip(text)) THEN
            register_next_step_handler(
                send_message(DelSession(s0, u), c, "valid_number"),
                c, "process_num_people")
        ELSE LET s1 == SetField(s0, u, "num_people", int(strip(text)))
                 s2 == SetField(s1, u, "step", "restaurant_link")
                 s3 == send_message(s2, c, "paste_link")
             IN  register_next_step_handler(s3, c, "process_restaurant_link")

\* process_num_people refusing party sizes below one
process_num_people_positive_only(st, u, text) ==
    LET s0 == Called(st, "process_num_people", u, text)
        c  == chat_id(u)
    IN  IF u \notin DOMAIN s0.ats THEN send_message(s0, c, "restart")
        ELSE IF text = None THEN Raise(s0, u, "AttributeError")
        ELSE IF ~IsInt(strip(text)) \/ int(strip(text)) < 1 THEN
            register_next_step_handler(send_message(s0, c, "valid_number"),
                                       c, "process_num_people")
        ELSE LET s1 == SetField(s0, u, "num_people", int(strip(text)))
                 s2 == SetField(s1, u, "step", "restaurant_link")
                 s3 == send_message(s2, c, "paste_link")
             IN  register_next_step_handler(s3, c, "process_restaurant_link")

process_num_people(st, u, text) ==
    LET s0 == Called(st, "process_num_people", u, text)
        c  == chat_id(u)
    IN  IF u \notin DOMAIN s0.ats THEN send_message(s0, c, "restart")
        ELSE IF text = None THEN Raise(s0, u, "AttributeError")
        ELSE IF ~IsInt(strip(text)) THEN
            register_next_step_handler(send_message(s0, c, "valid_number"),
                                       c, "process_num_people")
        ELSE LET s1 == SetField(s0, u, "num_people", int(strip(text)))
                 s2 == SetField(s1, u, "step", "restaurant_link")
                 s3 == send_message(s2, c, "paste_link")
             IN  register_next_step_handler(s3, c, "process_restaurant_link")

process_restaurant_link(st, u, text) ==
    LET s0 == Called(st, "process_restaurant_link", u, text)
        c  == chat_id(u)
    IN  IF u \notin DOMAIN s0.ats THEN send_message(s0, c, "restart")
        ELSE IF text = None THEN Raise(s0, u, "AttributeError")
        ELSE LET s1 == SetField(s0, u, "restaurant_link", strip(text))
                 s2 == SetField(s1, u, "step", "notes")
                 s3 == send_message(s2, c, "any_notes")
             IN  register_next_step_handler(s3, c, "process_notes")

\* reservation_id INTEGER PRIMARY KEY AUTOINCREMENT
NextRowId(db) ==
    IF db = <<>> THEN 1
    ELSE 1 + (CHOOSE m \in { db[i].reservation_id : i \in 1..Len(db) } :
                 \A j \in 1..Len(db) : db[j].reservation_id <= m)

\* the insert with restaurant_link and notes bound to each other's column
save_reservation_swapped(db, user_id, full_name, num_people, reservation_datetime, restaurant_link, notes) ==
    Append(db, [reservation_id   |-> NextRowId(db),
                user_id          |-> user_id,
                full_name        |-> full_name,
                num_people       |-> num_people,
                date             |-> strftime_date(reservation_datetime),
                reservation_time |-> strftime_time(reservation_datetime),
                restaurant_link  |-> notes,
                notes            |-> restaurant_link])

save_reservation_to_db(db, user_id, full_name, num_people, reservation_datetime, restaurant_link, notes) ==
    Append(db, [reservation_id   |-> NextRowId(db),
                user_id          |-> user_id,
                full_name        |-> full_name,
                num_people       |-> num_people,
                date             |-> strftime_date(reservation_datetime),
                reservation_time |-> strftime_time(reservation_datetime),
                restaurant_link  |-> restaurant_link,
                notes            |-> notes])

\* data.get(k): None when the key is absent
Get(d, k) == IF k \in DOMAIN d THEN d[k] ELSE None

\* a bot.send_message of process_notes: appends to the call's log as well
SendLogged(st, i, to, msg) ==
    [send_message(st, to, msg) EXCEPT !.thr[i].log = Append(@, msg)]

RemoveAt(s, i) == SubSeq(s, 1, i - 1) \o SubSeq(s, i + 1, Len(s))

\* an exception ends the call i
RaiseIn(st, i, exc) == [Raise(st, st.thr[i].user, exc) EXCEPT !.thr = RemoveAt(@, i)]

\* process_notes deleting the draft before the insert instead of at its end
process_notes_early_del(st, u, text, fault) ==
    LET s0 == Called(st, "process_notes", u, text)
        c  == chat_id(u)
    IN  IF u \notin DOMAIN s0.ats THEN send_message(s0, c, "restart")
        ELSE IF text = None THEN Raise(s0, u, "AttributeError")
        ELSE
          LET s1   == SetField(s0, u, "notes", strip(text))
              data == s1.ats[u]
          IN  IF "date" \notin DOMAIN data \/ "time" \notin DOMAIN data
                  THEN Raise(s1, u, "KeyError")
              ELSE IF ~IsDateTime(data["date"] \o <<" ">> \o data["time"])
                  THEN Raise(s1, u, "ValueError")
              ELSE IF "full_name" \notin DOMAIN data \/ "num_people" \notin DOMAIN data
                  THEN Raise(s1, u, "KeyError")
              ELSE IF fault = 1 THEN Raise(DelSession(s1, u), u, "sqlite3.Error")
              ELSE
                LET s2 == [s1 EXCEPT !.db =
                             save_reservation_to_db(@, u, data["full_name"],
                                 data["num_people"],
                                 strptime(data["date"] \o <<" ">> \o data["time"]),
                                 Get(data, "restaurant_link"), Get(data, "notes")),
                                     !.sto = @ \cup {u},
                                     !.ev = Append(@, <<"save", u, data>>)]
                    i  == Len(s2.thr) + 1
                    s3 == [s2 EXCEPT !.thr = Append(@, [user |-> u, pc |-> "sleep1",
                                                        log |-> <<"stored">>])]
                IN  IF fault = 2 THEN RaiseIn(s3, i, "ApiException")
                    ELSE SendLogged(s3, i, c, "confirmation")

\* process_notes reading the name and the party size with data.get()
process_notes_lenient(st, u, text, fault) ==
    LET s0 == Called(st, "process_notes", u, text)
        c  == chat_id(u)
    IN  IF u \notin DOMAIN s0.ats THEN send_message(s0, c, "restart")
        ELSE IF text = None THEN Raise(s0, u, "AttributeError")
        ELSE
          LET s1   == SetField(s0, u, "notes", strip(text))
              data == s1.ats[u]
          IN  IF "date" \notin DOMAIN data \/ "time" \notin DOMAIN data
                  THEN Raise(s1, u, "KeyError")
              ELSE IF ~IsDateTime(data["date"] \o <<" ">> \o data["time"])
                  THEN Raise(s1, u, "ValueError")
              ELSE IF fault = 1 THEN Raise(s1, u, "sqlite3.Error")
              ELSE
                LET s2 == [s1 EXCEPT !.db =
                             save_reservation_to_db(@, u, Get(data, "full_name"),
                                 Get(data, "num_people"),
                                 strptime(data["date"] \o <<" ">> \o data["time"]),
                                 Get(data, "restaurant_link"), Get(data, "notes")),
                                     !.sto = @ \cup {u},
                                     !.ev = Append(@, <<"save", u, data>>)]
                    i  == Len(s2.thr) + 1
                    s3 == [s2 EXCEPT !.thr = Append(@, [user |-> u, pc |-> "sleep1",
                                                        log |-> <<"stored">>])]
                IN  IF fault = 2 THEN RaiseIn(s3, i, "ApiException")
                    ELSE SendLogged(s3, i, c, "confirmation")

\* process_notes up to its first time.sleep(2).  fault: which of its external
\* calls fails (1 the insert, 2 the send of the confirmation, 0 none)
process_notes(st, u, text, fault) ==
    LET s0 == Called(st, "process_notes", u, text)
        c  == chat_id(u)
    IN  IF u \notin DOMAIN s0.ats THEN send_message(s0, c, "restart")
        ELSE IF text = None THEN Raise(s0, u, "AttributeError")
        ELSE
          LET s1   == SetField(s0, u, "notes", strip(text))
              data == s1.ats[u]
          IN  IF "date" \notin DOMAIN data \/ "time" \notin DOMAIN data
                  THEN Raise(s1, u, "KeyError")
              ELSE IF ~IsDateTime(data["date"] \o <<" ">> \o data["time"])
                  THEN Raise(s1, u, "ValueError")
              ELSE IF "full_name" \notin DOMAIN data \/ "num_people" \notin DOMAIN data
                  THEN Raise(s1, u, "KeyError")
              ELSE IF fault = 1 THEN Raise(s1, u, "sqlite3.Error")
              ELSE
                LET s2 == [s1 EXCEPT !.db =
                             save_reservation_to_db(@, u, data["full_name"],
                                 data["num_people"],
                                 strptime(data["date"] \o <<" ">> \o data["time"]),
                                 Get(data, "restaurant_link"), Get(data, "notes")),
                                     !.sto = @ \cup {u},
                                     !.ev = Append(@, <<"save", u, data>>)]
                    i  == Len(s2.thr) + 1
                    s3 == [s2 EXCEPT !.thr = Append(@, [user |-> u, pc |-> "sleep1",
                                                        log |-> <<"stored">>])]
                IN  IF fault = 2 THEN RaiseIn(s3, i, "ApiException")
                    ELSE SendLogged(s3, i, c, "confirmation")

\* process_notes notifying the administrator before it sends the main menu
process_notes_resume_admin_first(st0, i, fault) ==
    LET t  == st0.thr[i]
        u  == t.user
        st == [st0 EXCEPT !.ev = Append(@, <<"resume", "process_notes", u, t.pc>>)]
    IN  IF t.pc = "sleep1" THEN
            IF fault = 1 THEN RaiseIn(st, i, "ApiException")
            ELSE [SendLogged(st, i, chat_id(u), "thank_you") EXCEPT !.thr[i].pc = "sleep2"]
        ELSE
            IF fault = 1 THEN RaiseIn(st, i, "ApiException")
            ELSE LET s1 == SendLogged(st, i, ADMIN_ID, "new_reservation")
                 IN  IF fault = 2 THEN RaiseIn(s1, i, "ApiException")
                     ELSE LET s2 == SendLogged(s1, i, chat_id(u), "main_menu")
                          IN  IF u \in DOMAIN s2.ats
                              THEN [DelSession(s2, u) EXCEPT
                                       !.ev = Append(@, <<"return", u, s2.thr[i].log>>),
                                       !.thr = RemoveAt(@, i)]
                              ELSE RaiseIn(s2, i, "KeyError")

\* process_notes returning without its final del
process_notes_resume_keeps_draft(st0, i, fault) ==
    LET t  == st0.thr[i]
        u  == t.user
        st == [st0 EXCEPT !.ev = Append(@, <<"resume", "process_notes", u, t.pc>>)]
    IN  IF t.pc = "sleep1" THEN
            IF fault = 1 THEN RaiseIn(st, i, "ApiException")
            ELSE [SendLogged(st, i, chat_id(u), "thank_you") EXCEPT !.thr[i].pc = "sleep2"]
        ELSE
            IF fault = 1 THEN RaiseIn(st, i, "ApiException")
            ELSE LET s1 == SendLogged(st, i, chat_id(u), "main_menu")
                 IN  IF fault = 2 THEN RaiseIn(s1, i, "ApiException")
                     ELSE LET s2 == SendLogged(s1, i, ADMIN_ID, "new_reservation")
                          IN  [s2 EXCEPT
                                  !.ev = Append(@, <<"return", u, s2.thr[i].log>>),
                                  !.thr = RemoveAt(@, i)]

\* process_notes from one time.sleep(2) to the next, or to its return.
\* fault: which of the sends of this stretch fails (0 none)
process_notes_resume(st0, i, fault) ==
    LET t  == st0.thr[i]
        u  == t.user
        st == [st0 EXCEPT !.ev = Append(@, <<"resume", "process_notes", u, t.pc>>)]
    IN  IF t.pc = "sleep1" THEN
            IF fault = 1 THEN RaiseIn(st, i, "ApiException")
            ELSE [SendLogged(st, i, chat_id(u), "thank_you") EXCEPT !.thr[i].pc = "sleep2"]
        ELSE
            IF fault = 1 THEN RaiseIn(st, i, "ApiException")
            ELSE LET s1 == SendLogged(st, i, chat_id(u), "main_menu")
                 IN  IF fault = 2 THEN RaiseIn(s1, i, "ApiException")
                     ELSE LET s2 == SendLogged(s1, i, ADMIN_ID, "new_reservation")
                          IN  IF u \in DOMAIN s2.ats
                              THEN [DelSession(s2, u) EXCEPT
                                       !.ev = Append(@, <<"return", u, s2.thr[i].log>>),
                                       !.thr = RemoveAt(@, i)]
                              ELSE RaiseIn(s2, i, "KeyError")

\* the next-step handlers of the chat all get the message, in registration order
RECURSIVE notify_next_handlers(_, _, _, _, _)
notify_next_handlers(st, hs, u, text, fault) ==
    IF hs = <<>> THEN st
    ELSE LET h  == Head(hs)
             s1 == CASE h = "process_full_name"       -> process_full_name(st, u, text)
                     [] h = "process_num_people"      -> process_num_people(st, u, text)
                     [] h = "process_restaurant_link" -> process_restaurant_link(st, u, text)
                     [] h = "process_notes"           -> process_notes(st, u, text, fault)
         IN  notify_next_handlers(s1, Tail(hs), u, text, fault)

\* a message that is not a command handled by send_welcome
process_new_messages(st, u, text, fault) ==
    LET hs == st.nsh[chat_id(u)]
    IN  notify_next_handlers(clear_step_handler_by_chat_id(st, chat_id(u)),
                             hs, u, text, fault)

\* ----------------------------------------------------------------- actions
Fits(st) ==
    /\ Len(st.thr) <= NumThreads
    /\ Len(st.db) <= MaxRecords
    /\ \A c \in DOMAIN st.nsh : Len(st.nsh[c]) <= MaxHandlers

Becomes(st) ==
    /\ Fits(st)
    /\ available_time_slots' = st.ats
    /\ next_step_handlers' = st.nsh
    /\ reservations' = st.db
    /\ threads' = st.thr
    /\ events' = st.ev
    /\ stored' = st.sto

FreeWorker == Len(threads) < NumThreads

\* what user u types: "J D " for a name or a link, " 2" for notes, either
\* where a number is asked, " 2" when nothing is asked
Typed(u) ==
    IF u \in DOMAIN available_time_slots /\ "step" \in DOMAIN available_time_slots[u]
    THEN LET step == available_time_slots[u]["step"]
         IN  CASE step = "full_name"       -> {NameText}
               [] step = "num_people"      -> {NumText, NameText}
               [] step = "restaurant_link" -> {NameText}
               [] step = "notes"           -> {NumText}
    ELSE {NumText}

Init ==
    /\ available_time_slots = [u \in {} |-> EmptyDict]
    /\ next_step_handlers = [c \in { chat_id(u) : u \in Users } |-> <<>>]
    /\ reservations = <<>>
    /\ threads = <<>>
    /\ events = <<>>
    /\ stored = {}

\* the user sends /start and send_welcome gets it
Start(u) == FreeWorker /\ Becomes(send_welcome(Cur, u))

\* the user presses a button
CallbackQuery(u, data) == FreeWorker /\ Becomes(callback_handler(Cur, u, data))

\* the user sends a message
Message(u, text, fault) == FreeWorker /\ Becomes(process_new_messages(Cur, u, text, fault))

\* a sleeping process_notes call wakes up
Resume(i, fault) == Becomes(process_notes_resume(Cur, i, fault))

Next ==
    \/ \E u \in Solo : Start(u)
    \/ \E u \in Solo, data \in CallbackData : CallbackQuery(u, data)
    \/ \E u \in Solo : \E text \in Typed(u), fault \in Faults : Message(u, text, fault)
    \/ \E i \in 1..Len(threads), fault \in Faults : Resume(i, fault)

Spec == Init /\ [][Next]_vars

\* ------------------------------------------------- two users at the same time
DuoNext ==
    \/ \E u \in Users : Start(u)
    \/ \E u \in Users, data \in CallbackData : CallbackQuery(u, data)
    \/ \E u \in Users : \E text \in Typed(u), fault \in Faults : Message(u, text, fault)
    \/ \E i \in 1..Len(threads), fault \in Faults : Resume(i, fault)

DuoSpec == Init /\ [][DuoNext]_vars

\* ------------------------------------------- a user who follows the wizard
\* no row of user u is in the table
NoRow(u) == \A i \in 1..Len(reservations) : reservations[i].user_id # u

\* the handlers pending for the next message of user u
Pending(u) == next_step_handlers[chat_id(u)]

\* the states the next input of user u leads to, for a user who goes through
\* the wizard once, in order, with any button of the keyboard shown and with
\* every external call succeeding
Flow(u) ==
    LET has  == u \in DOMAIN available_time_slots
        d    == IF has THEN available_time_slots[u] ELSE EmptyDict
        step == Get(d, "step")
        hs   == Pending(u)
    IN  IF ~has THEN
            IF NoRow(u) THEN {callback_handler(Cur, u, reserve)} ELSE {}
        ELSE IF "date" \notin DOMAIN d THEN
            { callback_handler(Cur, u, data) : data \in generate_date_selection_buttons }
        ELSE IF "time" \notin DOMAIN d THEN
            { callback_handler(Cur, u, data) : data \in generate_half_hour_slots }
        ELSE IF step = "full_name" /\ hs = <<"process_full_name">> THEN
            {process_new_messages(Cur, u, NameText, 0)}
        ELSE IF step = "num_people" /\ hs = <<>> THEN
            { callback_handler(Cur, u, data) : data \in generate_num_people_buttons }
        ELSE IF step = "num_people" /\ hs = <<"process_num_people">> THEN
            {process_new_messages(Cur, u, NumText, 0)}
        ELSE IF step = "restaurant_link" /\ hs = <<"process_restaurant_link">> THEN
            {process_new_messages(Cur, u, NameText, 0)}
        ELSE IF step = "notes" /\ hs = <<"process_notes">> THEN
            {process_new_messages(Cur, u, NumText, 0)}
        ELSE {}

\* the user sends the input asked for
Supply(u) == FreeWorker /\ \E st \in Flow(u) : Becomes(st)

\* a text that is no number where the party size is asked
Stray(u) ==
    /\ u \in DOMAIN available_time_slots
    /\ Get(available_time_slots[u], "step") = "num_people"
    /\ Pending(u) = <<"process_num_people">>
    /\ Message(u, NameText, 0)

\* a time.sleep(2) of a run ends and its sends succeed
Wake == \E i \in 1..Len(threads) : Resume(i, 0)

FlowNext ==
    \/ \E u \in Solo : Supply(u)
    \/ \E u \in Solo : Stray(u)
    \/ Wake

\* ENABLED <<Supply(u)>>_vars, from the states Supply(u) leads to
CanSupply(u) ==
    /\ FreeWorker
    /\ \E st \in Flow(u) :
          Fits(st) /\ <<st.ats, st.nsh, st.db, st.thr, st.ev, st.sto>> # vars

\* every sleep ends (weak fairness of Wake) and the user keeps supplying the
\* input asked for (weak fairness of Supply, its ENABLED written as CanSupply)
FlowSpec ==
    /\ Init
    /\ [][FlowNext]_vars
    /\ WF_vars(Wake)
    /\ \A u \in Solo : []<>(~CanSupply(u)) \/ []<><<Supply(u)>>_vars

\* ------------------------------------------------------------- observations
IsCall(e) == e[1] = "call"
IsSave(e) == e[1] = "save"

\* the last step sent msg to chat
Sent(ev, chat, msg) == \E k \in 1..Len(ev) : ev[k] = <<"send", chat, msg>>

\* the last step raised an exception
Raised(ev) == \E k \in 1..Len(ev) : ev[k][1] = "raise"

RaisedBy(ev, u, exc) == \E k \in 1..Len(ev) : ev[k] = <<"raise", exc, u>>

\* the last step ran handler h for user u
Ran(ev, h, u) == \E k \in 1..Len(ev) : IsCall(ev[k]) /\ ev[k][2] = h /\ ev[k][3] = u

IsPrefix(p, q) == Len(p) <= Len(q) /\ SubSeq(q, 1, Len(p)) = p

StepHandlers ==
    {"process_full_name", "process_num_people", "process_restaurant_link",
     "process_notes"}

\* what the draft of user u waits for, in the words of the wizard's table
Awaits(u) ==
    IF u \notin DOMAIN available_time_slots THEN "reserve"
    ELSE LET s == available_time_slots[u]
         IN  IF "step" \in DOMAIN s THEN s["step"]
             ELSE IF "date" \in DOMAIN s THEN "time" ELSE "date"

IsDateData(data) == contains(data, "-") /\ Len(data) = 10
IsTimeData(data) == ~IsDateData(data) /\ startswith(data, time_)
IsNumData(data)  == ~IsDateData(data) /\ ~IsTimeData(data) /\ startswith(data, num_)

\* ------------------------------------------------------------------- claims

C2_OnlyForward ==
    [][\A u \in DOMAIN available_time_slots :
         (Len(events') = 2 /\ IsCall(events'[1]) /\ events'[1][3] = u
            /\ events'[2][1] = "send"
            /\ events'[2][3] \notin {"restart", "valid_number"}) =>
             LET h == events'[1][2]
                 x == events'[1][4]
             IN  /\ (h = "callback_handler" /\ IsDateData(x)) => Awaits(u) = "date"
                 /\ (h = "callback_handler" /\ IsTimeData(x)) => Awaits(u) = "time"
                 /\ (h = "callback_handler" /\ IsNumData(x))
                        => Awaits(u) = "num_people"
                 /\ h = "process_full_name" => Awaits(u) = "full_name"
                 /\ h = "process_num_people" => Awaits(u) = "num_people"
                 /\ h = "process_restaurant_link" => Awaits(u) = "restaurant_link"
      ]_vars

\* C3: a step handler invoked for a user without a draft sends the restart
\* guidance, raises nothing, and leaves the drafts and the table as they were.
C3_NoSessionGuidance ==
    [][\A u \in Users :
         (/\ u \notin DOMAIN available_time_slots
          /\ \E k \in 1..Len(events') :
                /\ IsCall(events'[k]) /\ events'[k][3] = u
                /\ \/ events'[k][2] \in StepHandlers
                   \/ /\ events'[k][2] = "callback_handler"
                      /\ \/ IsDateData(events'[k][4])
                         \/ IsTimeData(events'[k][4])
                         \/ IsNumData(events'[k][4]))
         => /\ ~Raised(events')
            /\ Sent(events', chat_id(u), "restart")
            /\ available_time_slots' = available_time_slots
            /\ reservations' = reservations
      ]_vars

\* no process_notes call of user u is in one of its pauses
Quiet(u) == \A i \in 1..Len(threads) : threads[i].user # u

\* C4: between the creation and the deletion of a user's draft at most one row
\* is inserted for the user: once no run of the user is under way, a message
\* never inserts for a user whose present draft was inserted already, never
\* inserts twice, and inserts nothing for a user without a draft.
C4_OneInsertPerSession ==
    \A u \in Users, text \in Texts, fault \in Faults :
        LET r == process_new_messages(Cur, u, text, fault)
            allowed == IF u \in stored \/ u \notin DOMAIN available_time_slots
                       THEN 0 ELSE 1
        IN  Quiet(u) => Len(r.db) <= Len(reservations) + allowed

Completion == {"confirmation", "thank_you", "main_menu", "new_reservation"}

\* C6: when the insert fails, no row is stored, none of the completion messages
\* is sent and the user's draft is still there (with the fields it had, when
\* process_notes was the only handler the message reached).
C6_WriteFailureKeepsDraft ==
    [][\A u \in Users :
         RaisedBy(events', u, "sqlite3.Error") =>
            /\ reservations' = reservations
            /\ \A k \in 1..Len(events') :
                  events'[k][1] = "send" => events'[k][3] \notin Completion
            /\ threads' = threads
            /\ u \in DOMAIN available_time_slots'
            /\ u \in DOMAIN available_time_slots
            /\ Len(SelectSeq(events', IsCall)) = 1 =>
                  \A f \in DOMAIN available_time_slots[u] \ {"notes"} :
                      /\ f \in DOMAIN available_time_slots'[u]
                      /\ available_time_slots'[u][f] = available_time_slots[u][f]
      ]_vars

\* an insert that failed for a draft that was ready to be stored
C6_Witness ==
    \E u \in Users :
        /\ RaisedBy(events, u, "sqlite3.Error")
        /\ u \in DOMAIN available_time_slots
        /\ {"date", "time", "full_name", "num_people", "restaurant_link", "notes"}
              \subseteq DOMAIN available_time_slots[u]

\* the last step was a failed insert or a failed send of process_notes for u
FailedFinalStep(u) ==
    RaisedBy(events, u, "sqlite3.Error") \/ RaisedBy(events, u, "ApiException")

\* C7: after a failed insert or send of process_notes the user's next input,
\* unless it is a start command, changes neither the draft nor the table.
C7_StuckUntilStart ==
    [][\A u \in Users :
         (/\ FailedFinalStep(u)
          /\ u \in DOMAIN available_time_slots
          /\ events' # <<>> /\ IsCall(events'[1]) /\ events'[1][3] = u
          /\ events'[1][2] # "send_welcome")
         => /\ u \in DOMAIN available_time_slots'
            /\ available_time_slots'[u] = available_time_slots[u]
            /\ reservations' = reservations
      ]_vars

\* the events of a run that completes, in order
Order == <<"stored", "confirmation", "thank_you", "main_menu", "new_reservation">>

\* C8: a run stores the row, then sends the confirmation, the thank-you and
\* the main menu to the user, then the notification to the administrator, and
\* deletes the draft last.
C8_CompletionOrder ==
    /\ \A i \in 1..Len(threads) :
          /\ IsPrefix(threads[i].log, Order)
          /\ threads[i].pc = "sleep1" => threads[i].log = SubSeq(Order, 1, 2)
          /\ threads[i].pc = "sleep2" => threads[i].log = SubSeq(Order, 1, 3)
    /\ \A k \in 1..Len(events) :
          /\ events[k][1] = "return" =>
                /\ events[k][3] = Order
                /\ k = Len(events)
                /\ events[k - 1] = <<"del", events[k][2]>>
                /\ events[k - 2] = <<"send", ADMIN_ID, "new_reservation">>
                /\ events[k - 3] = <<"send", chat_id(events[k][2]), "main_menu">>
          /\ (events[k][1] = "send" /\ events[k][3] = "confirmation") =>
                /\ k > 1
                /\ IsSave(events[k - 1])
          /\ (events[k][1] = "send" /\ events[k][3] = "new_reservation") =>
                events[k][2] = ADMIN_ID

\* a run that completed
C8_Witness ==
    /\ events # <<>>
    /\ events[Len(events)][1] = "return"
    /\ Len(reservations) >= 1

\* texts that int() rejects
NotIntegers ==
    { <<>>, <<" ">>, <<"a", "b", "c">>, NameText,
      <<"3", " ", "4">>, <<"/", "s", "t", "a", "r", "t">> }

\* C9: process_num_people on a text that is no integer leaves the draft (its
\* step and party size included) and the table unchanged, sends the re-prompt
\* and registers itself again; when it was the chat's only pending handler
\* the chat is back where it was, so this repeats.
C9_InvalidNumberReprompts ==
    \A u \in DOMAIN available_time_slots, text \in NotIntegers :
        LET c == chat_id(u)
            r == process_num_people(Cur, u, text)
            d == process_new_messages(Cur, u, text, 0)
        IN  /\ r.ats = available_time_slots
            /\ r.db = reservations
            /\ r.nsh = [next_step_handlers EXCEPT
                          ![c] = Append(@, "process_num_people")]
            /\ Sent(r.ev, c, "valid_number")
            /\ ~Raised(r.ev)
            /\ next_step_handlers[c] = <<"process_num_people">> =>
                  /\ d.ats = available_time_slots
                  /\ d.nsh = next_step_handlers
                  /\ d.db = reservations

\* a rejected party size, with the handler pending again
C9_Witness ==
    \E u \in DOMAIN available_time_slots :
        /\ \E k \in 1..Len(events) :
              /\ IsCall(events[k]) /\ events[k][2] = "process_num_people"
              /\ events[k][3] = u /\ events[k][4] \in NotIntegers
        /\ Sent(events, chat_id(u), "valid_number")
        /\ next_step_handlers[chat_id(u)] = <<"process_num_people">>
        /\ available_time_slots[u]["step"] = "num_people"

\* C10: the quick pick n and 'other' followed by the text "n" leave the draft
\* with the same party size n and the same step restaurant_link, and in both
\* cases the next text becomes the restaurant link; from a chat without a
\* pending handler the two states are equal.
C10_PickEqualsOther ==
    \A u \in DOMAIN available_time_slots, n \in 1..MaxPick :
        LET c == chat_id(u)
            q == callback_handler(Cur, u, num_ \o str(n))
            o == process_new_messages(callback_handler(Cur, u, num_ \o other),
                                      u, str(n), 0)
        IN  /\ q.ats[u]["num_people"] = n
            /\ o.ats[u]["num_people"] = n
            /\ q.ats[u]["step"] = "restaurant_link"
            /\ o.ats[u]["step"] = "restaurant_link"
            /\ \A text \in Texts :
                  LET q2 == process_new_messages(q, u, text, 0)
                      o2 == process_new_messages(o, u, text, 0)
                  IN  /\ q2.ats[u]["restaurant_link"] = strip(text)
                      /\ o2.ats[u]["restaurant_link"] = strip(text)
            /\ next_step_handlers[c] = <<>> =>
                  /\ q.ats = o.ats
                  /\ q.nsh = o.nsh
                  /\ q.nsh[c] = <<"process_restaurant_link">>

\* a party size typed after 'other', the link awaited next
C10_Witness ==
    \E u \in DOMAIN available_time_slots :
        /\ events # <<>>
        /\ IsCall(events[1]) /\ events[1][2] = "process_num_people"
        /\ events[1][3] = u /\ events[1][4] # None /\ IsInt(events[1][4])
        /\ "num_people" \in DOMAIN available_time_slots[u]
        /\ available_time_slots[u]["num_people"] \in 1..MaxPick
        /\ available_time_slots[u]["step"] = "restaurant_link"
        /\ next_step_handlers[chat_id(u)] = <<"process_restaurant_link">>

\* texts that int() accepts, each with the integer Python makes of it
Integers ==
    { <<<<"0">>, 0>>, <<<<"-", "1">>, 0 - 1>>, <<<<"3">>, 3>>, <<NumText, 2>>,
      <<<<"+", "3">>, 3>>, <<<<"1", "_", "0">>, 10>>, <<<<"-", "0", "7", " ">>, 0 - 7>>,
      <<<<"1", "0", "0", "0">>, 1000>> }

\* C11: process_num_people on a text that int() accepts, zero and negative
\* numbers included, records that integer as the party size, moves the step to
\* restaurant_link, asks for the link and registers process_restaurant_link,
\* with no re-prompt; on every other text it sends the re-prompt and records
\* nothing.
C11_IntegersAccepted ==
    \A u \in DOMAIN available_time_slots :
        /\ \A p \in Integers :
              LET c == chat_id(u)
                  r == process_num_people(Cur, u, p[1])
              IN  /\ "num_people" \in DOMAIN r.ats[u]
                  /\ r.ats[u]["num_people"] = p[2]
                  /\ r.ats[u]["step"] = "restaurant_link"
                  /\ \A f \in DOMAIN available_time_slots[u] \ {"num_people", "step"} :
                        r.ats[u][f] = available_time_slots[u][f]
                  /\ r.nsh[c] = Append(next_step_handlers[c], "process_restaurant_link")
                  /\ Sent(r.ev, c, "paste_link")
                  /\ ~Sent(r.ev, c, "valid_number")
                  /\ ~Raised(r.ev)
        /\ \A text \in AnyText \ ({None} \cup { p[1] : p \in Integers }) :
              LET r == process_num_people(Cur, u, text)
              IN  /\ Sent(r.ev, chat_id(u), "valid_number")
                  /\ r.ats = available_time_slots

\* a typed party size " 2" recorded as 2 in a draft that already had a link,
\* the link asked for again
C11_Witness ==
    \E u \in DOMAIN available_time_slots :
        /\ Len(events) = 2
        /\ events[1] = <<"call", "process_num_people", u, NumText>>
        /\ events[2] = <<"send", chat_id(u), "paste_link">>
        /\ available_time_slots[u]["num_people"] = 2
        /\ available_time_slots[u]["step"] = "restaurant_link"
        /\ "restaurant_link" \in DOMAIN available_time_slots[u]

\* C12: a draft appears only in a step that handles the user's reserve
\* selection, and then it is empty; a draft disappears only in a step that
\* handles the user's start command or in which a process_notes run of the
\* user returns after all its sends; every other step, rejected inputs and
\* failed runs included, keeps the drafts that exist.
C12_SessionLifecycle ==
    [][\A u \in Users :
         /\ (u \notin DOMAIN available_time_slots /\ u \in DOMAIN available_time_slots')
               => /\ events' # <<>>
                  /\ events'[1] = <<"call", "callback_handler", u, reserve>>
                  /\ available_time_slots'[u] = EmptyDict
         /\ (u \in DOMAIN available_time_slots /\ u \notin DOMAIN available_time_slots')
               => /\ events' # <<>>
                  /\ \/ events'[1] = <<"call", "send_welcome", u, <<>>>>
                     \/ events'[Len(events')] = <<"return", u, Order>>
      ]_vars

\* a draft that is still there after its run stored the row and then failed
\* at a send
C12_Witness ==
    \E u \in DOMAIN available_time_slots :
        /\ RaisedBy(events, u, "ApiException")
        /\ u \in stored
        /\ Len(reservations) >= 1
        /\ "notes" \in DOMAIN available_time_slots[u]

\* C13: the final del of a process_notes run never raises KeyError: when a
\* run wakes from its last pause, the draft of its user is there to delete.
C13_DeleteNeverFaults ==
    \A u \in Users :
        ~(/\ events # <<>>
          /\ events[1] = <<"resume", "process_notes", u, "sleep2">>
          /\ RaisedBy(events, u, "KeyError"))

\* the run of user u is over: one row of the user stored, no draft, no call
\* of process_notes left
Done(u) ==
    /\ u \notin DOMAIN available_time_slots
    /\ Quiet(u)
    /\ Cardinality({ i \in 1..Len(reservations) : reservations[i].user_id = u }) = 1

\* C14: a user without a draft who picks reserve and then supplies date, time,
\* name, party size (button or typed integer), link and notes in order, every
\* external call succeeding, gets to the end: one row stored and the draft
\* gone, however many texts that are no number were sent in between.
C14_FlowCompletes ==
    \A u \in Solo : (u \in DOMAIN available_time_slots) ~> Done(u)

\* a completed run for the last day offered and the largest quick pick
C14_Witness ==
    /\ Done(1)
    /\ events # <<>> /\ events[Len(events)] = <<"return", 1, Order>>
    /\ reservations[1].date = strftime_date(AddDays(Today, NumDays - 1))
    /\ reservations[1].num_people = MaxPick

\* the inputs a user can follow a reserve selection with
Inputs ==
    { <<"press", data>> : data \in CallbackData \ {reserve} }
    \cup { <<"type", text>> : text \in Texts }

\* the update inp of user u is handled
Handle(st, u, inp) ==
    IF inp[1] = "press" THEN callback_handler(st, u, inp[2])
    ELSE process_new_messages(st, u, inp[2], 0)

\* the row's date, time, name, party size, link and notes are all among the
\* values the inputs ins carry
EnteredBy(row, ins) ==
    LET pressed == { inp[2] : inp \in { x \in ins : x[1] = "press" } }
        typed   == { strip(inp[2]) : inp \in { x \in ins : x[1] = "type" } }
        sizes   == { int(replace(x, num_)) :
                       x \in { y \in pressed : IsNumData(y) /\ IsInt(replace(y, num_)) } }
                   \cup { int(x) : x \in { y \in typed : IsInt(y) } }
    IN  /\ row.date \in pressed
        /\ (time_ \o row.reservation_time) \in pressed
        /\ row.full_name \in typed
        /\ row.num_people \in sizes
        /\ row.restaurant_link \in typed
        /\ row.notes \in typed

\* C15: whatever a user did before, a row stored for the user by one of the
\* two inputs that follow a reserve selection of the user holds only values
\* those inputs carry (hence no such row is stored at all).
C15_ValuesAfterReserve ==
    \A u \in Users, i1 \in Inputs, i2 \in Inputs :
        LET s0 == callback_handler(Cur, u, reserve)
            s1 == Handle(s0, u, i1)
            s2 == Handle(s1, u, i2)
        IN  \A k \in (Len(s0.db) + 1)..Len(s2.db) :
                s2.db[k].user_id = u => EnteredBy(s2.db[k], {i1, i2})

\* the fields an insert reads with data[...]
Needed == {"date", "time", "full_name", "num_people"}

\* C16: every insert is made from a draft that holds a date, a time, a full
\* name and a party size, and process_notes on a draft that lacks one of them
\* inserts nothing, starts no completion sequence and raises.
C16_NoInsertFromIncomplete ==
    /\ \A k \in 1..Len(events) :
          IsSave(events[k]) => Needed \subseteq DOMAIN events[k][3]
    /\ \A u \in DOMAIN available_time_slots, text \in Texts, fault \in Faults :
          ~(Needed \subseteq DOMAIN available_time_slots[u]) =>
              LET r == process_notes(Cur, u, text, fault)
              IN  /\ r.db = reservations
                  /\ r.thr = threads
                  /\ Raised(r.ev)
                  /\ \A k \in 1..Len(r.ev) :
                        r.ev[k][1] = "send" => r.ev[k][3] \notin Completion

\* a notes text that reached process_notes for a draft without a date
C16_Witness ==
    \E u \in DOMAIN available_time_slots :
        /\ events # <<>>
        /\ events[1] = <<"call", "process_notes", u, NumText>>
        /\ RaisedBy(events, u, "KeyError")
        /\ "date" \notin DOMAIN available_time_slots[u]
        /\ available_time_slots[u]["notes"] = <<"2">>
        /\ reservations = <<>>

\* the user whose update or whose process_notes run the last step handled
Actor(ev) == ev[1][3]

\* C17: a step that handles an update of user a, or resumes a process_notes
\* run of user a, leaves every other user's draft as it was, present or absent,
\* leaves the other chats' pending handlers as they were, and appends only rows
\* with the user id a.
C17_UsersIsolated ==
    [][events' # <<>> =>
         LET a == Actor(events')
         IN  /\ events'[1][1] \in {"call", "resume"}
             /\ \A k \in 1..Len(events') :
                   events'[k][1] \in {"call", "resume"} => events'[k][3] = a
             /\ \A v \in Users \ {a} :
                   /\ v \in DOMAIN available_time_slots' <=> v \in DOMAIN available_time_slots
                   /\ v \in DOMAIN available_time_slots =>
                         available_time_slots'[v] = available_time_slots[v]
                   /\ next_step_handlers'[chat_id(v)] = next_step_handlers[chat_id(v)]
             /\ IsPrefix(reservations, reservations')
             /\ \A k \in (Len(reservations) + 1)..Len(reservations') :
                   reservations'[k].user_id = a
      ]_vars

\* user 1 has just typed the name while user 2 has a draft that holds a link
C17_Witness ==
    /\ {1, 2} \subseteq DOMAIN available_time_slots
    /\ events # <<>>
    /\ events[1] = <<"call", "process_full_name", 1, NameText>>
    /\ "restaurant_link" \in DOMAIN available_time_slots[2]
    /\ "restaurant_link" \notin DOMAIN available_time_slots[1]
    /\ "full_name" \notin DOMAIN available_time_slots[2]

====
